---- MODULE Spec2Model ----
(***************************************************************************)
(* A model of the deno-stable-ffi proposal: OwnedPointer and non-blocking  *)
(* FFI calls (nonblocking/safe.ts, nonblocking/guarded.ts) and thread-safe *)
(* callbacks (thread-safe-callbacks/caveats.ts), and stored callbacks      *)
(* (storable-callbacks/created.ts, proposal.d.ts).                         *)
(*                                                                         *)
(* JavaScript memory is modelled as V8 has it: a backing store is a        *)
(* sequence of bytes, an ArrayBuffer object refers to one backing store or *)
(* is detached, and typed arrays and DataViews refer to an ArrayBuffer     *)
(* object.                                                                 *)
(***************************************************************************)
EXTENDS Integers, Sequences, FiniteSets, TLC

VARIABLES
    mem,        \* backing stores: mem[s] is the byte sequence of store s
    bufs,       \* ArrayBuffer objects: bufs[b] is the store of b, or NoStore
    ptrs,       \* OwnedPointer objects (field buf is the private #buffer)
    hostBufs,   \* ArrayBuffers host code holds a typed array over
    views,      \* DataViews handed out by getDataView()
    calls,      \* calls[p]: the latest non-blocking call given pointer p
    last,       \* what the last host-visible operation did and returned
    mspc_channel,               \* the Int32Array shared by producer and consumer
    stored_thread_safe_callback,\* the native library's callback slot
    ffi_call_producer,          \* which producer function is installed
    prod,       \* prod[t]: the producer call thread t is executing
    cons,       \* the ffi_call_consumer() async function on the event loop
    stored,     \* StoredCallback objects and the resource Deno keeps for each
    entries,    \* the callback the native library keeps for each entry point
    cbLast,     \* what the last operation on a StoredCallback did
    plainCalls, \* plain buffers a non-blocking call was started with
    gc,         \* OwnedPointers dropped and collected, backing stores freed
    currentCalls, \* current API: the call made with each plain typed array
    arrays,     \* typed arrays and DataViews host code made over its buffers
    foreign,    \* ForeignPointer objects host code holds
    fviews,     \* ForeignPointerView objects host code holds
    fpLast      \* what the last operation on a ForeignPointer did

nbVars == <<mem, bufs, ptrs, hostBufs, views, calls, last>>
tsVars == <<mspc_channel, stored_thread_safe_callback, ffi_call_producer,
            prod, cons>>
scVars == <<stored, entries, cbLast>>
fpVars == <<foreign, fviews, fpLast>>
(* What the operations of one part of the model leave alone *)
notNB == <<tsVars, scVars, fpVars, plainCalls, gc, currentCalls, arrays>>
notTS == <<nbVars, scVars, fpVars, plainCalls, gc, currentCalls, arrays>>
notSC == <<nbVars, tsVars, fpVars, plainCalls, gc, currentCalls, arrays>>
notFP == <<nbVars, tsVars, scVars, plainCalls, gc, currentCalls, arrays>>
vars == <<mem, bufs, ptrs, hostBufs, views, calls, last, mspc_channel,
          stored_thread_safe_callback, ffi_call_producer, prod, cons,
          stored, entries, cbLast, plainCalls, gc, currentCalls, arrays, foreign,
          fviews, fpLast>>

----------------------------------------------------------------------------
(* Bounds of the model *)
MaxStores == 1
MaxBuffers == 2
MaxPointers == 1

(* Byte lengths of the buffers host code allocates *)
Lengths == {0, 1, 8, 4096}
(* The value a typed array holds when it is handed over: data[0] = 3n *)
InitVals == {3}
(* Values host code writes later: new BigUint64Array(buffer)[0] = 35n *)
HostVals == {35}
(* Status codes of the native function: 0 is success *)
Statuses == {0, 1}

(* v8_ArrayBuffer_Detach leaves the ArrayBuffer with no backing store *)
NoStore == 0
(* The value an operation returned: None when it threw or returned undefined *)
None == <<>>
Some(v) == <<v>>

----------------------------------------------------------------------------
(* Typed array element access, little endian *)

RECURSIVE FromBytesLE(_)
FromBytesLE(bytes) ==
    IF bytes = <<>> THEN 0
    ELSE Head(bytes) + 256 * FromBytesLE(Tail(bytes))

(* Byte i (from 1, least significant first) of v *)
RECURSIVE ByteOf(_, _)
ByteOf(v, i) == IF i = 1 THEN v % 256 ELSE ByteOf(v \div 256, i - 1)

(* BigUint64Array over a buffer whose length is a multiple of 8, else Uint8Array *)
ElemSize(n) == IF n > 0 /\ n % 8 = 0 THEN 8 ELSE 1

(* A backing store of n bytes. Only element 0 of a buffer is ever read or
   written here, so a store keeps its length and its first eight bytes (head);
   the bytes after them stay zero, as allocated, in every reachable state. *)
HeadLen(n) == IF n < 8 THEN n ELSE 8

Zeros(n) == [len |-> n, head |-> [i \in 1..HeadLen(n) |-> 0]]

(* The contents seen through a detached ArrayBuffer: nothing *)
Empty == [len |-> 0, head |-> <<>>]

(* typedArray[0] = v: a write to an index the array does not have is ignored *)
WriteElem0(content, v) ==
    IF content.len = 0 THEN content
    ELSE [content EXCEPT !.head =
            [i \in 1..HeadLen(content.len) |->
                IF i <= ElemSize(content.len) THEN ByteOf(v, i) ELSE @[i]]]

(* typedArray[0]: undefined (None) at an index the array does not have *)
ReadElem0(content) ==
    IF content.len = 0 THEN None
    ELSE Some(FromBytesLE(SubSeq(content.head, 1, ElemSize(content.len))))

----------------------------------------------------------------------------
(* ArrayBuffer objects *)

IsDetached(bs, b) == bs[b] = NoStore

ByteLength(bs, b) == IF bs[b] = NoStore THEN 0 ELSE mem[bs[b]].len

Content(bs, b) == IF bs[b] = NoStore THEN Empty ELSE mem[bs[b]]

(* v8_ArrayBuffer_Detach *)
Detach(bs, b) == [bs EXCEPT ![b] = NoStore]

(* A new ArrayBuffer object over an existing backing store, no copy *)
NewBufferOver(bs, s) == Append(bs, s)

StructuredCloneNoTransfer(bs, b) == NewBufferOver(bs, bs[b])

(* structuredClone(b, { transfer: [b] }): the clone takes the backing store of
   b and b is detached. The clone is the last ArrayBuffer of the result. *)
StructuredCloneTransfer(bs, b) == NewBufferOver(Detach(bs, b), bs[b])

(* The clone made by a transfer: the new ArrayBuffers, and which one the
   caller receives *)
CloneResult(bs, b) ==
    [bufs |-> StructuredCloneTransfer(bs, b), buf |-> Len(bs) + 1]

----------------------------------------------------------------------------
(* Observations *)

Obs(op, p, b, outcome, val, flying, gone) ==
    [op |-> op, ptr |-> p, buf |-> b, outcome |-> outcome, val |-> val,
     flying |-> flying, gone |-> gone]

Pointers == DOMAIN ptrs

(* Pointer p has been consumed by a call that has not resolved yet *)
InFlight(p) == calls[p].worker # "none" /\ ~calls[p].resolved

NumInFlight == Cardinality({p \in Pointers : InFlight(p)})

(* The call record of a pointer never passed to a call *)
NoCall ==
    [store |-> NoStore, worker |-> "none", status |-> None,
     resolved |-> FALSE, promise |-> None, modified |-> FALSE, snap |-> Empty]

(* Every call in flight creates one more ArrayBuffer when it returns *)
RoomForBuffer == Len(bufs) + NumInFlight < MaxBuffers
RoomForStore == Len(mem) < MaxStores

(* Owned: the private #buffer has a backing store *)
Owned(p) == ~IsDetached(bufs, ptrs[p].buf)

NewPointer(b, src, content) ==
    [buf |-> b, src |-> src, transferred |-> FALSE, fresh |-> TRUE,
     orig |-> content]

Touched(ps, p) == [ps EXCEPT ![p].fresh = FALSE, ![p].orig = Empty]

----------------------------------------------------------------------------
(* Host code: plain buffers and typed arrays *)

(* const data = new BigUint64Array(1) (or a Uint8Array of n bytes); data[0] = v *)
HostAlloc(n, v) ==
    /\ RoomForBuffer /\ RoomForStore
    /\ mem' = Append(mem, WriteElem0(Zeros(n), v))
    /\ bufs' = NewBufferOver(bufs, Len(mem) + 1)
    /\ hostBufs' = hostBufs \cup {Len(bufs) + 1}
    /\ last' = Obs("alloc", 0, Len(bufs) + 1, "ok", None, FALSE, FALSE)
    /\ UNCHANGED <<ptrs, views, calls>>

(* typedArray[0], typedArray.length on an array made while b was attached *)
HostRead(b) ==
    /\ b \in hostBufs
    /\ last' = Obs("read", 0, b,
                   IF ByteLength(bufs, b) = 0 THEN "undefined" ELSE "ok",
                   ReadElem0(Content(bufs, b)), FALSE, FALSE)
    /\ UNCHANGED <<mem, bufs, ptrs, hostBufs, views, calls>>

(* typedArray[0] = v: on a detached or empty buffer this only sets a property of
   the array object and writes no memory *)
HostWrite(b, v) ==
    /\ b \in hostBufs
    /\ mem' = IF IsDetached(bufs, b) THEN mem
              ELSE [mem EXCEPT ![bufs[b]] = WriteElem0(@, v)]
    /\ ptrs' = [p \in Pointers |->
                  IF ptrs[p].buf = b THEN Touched(ptrs, p)[p] ELSE ptrs[p]]
    /\ last' = Obs("write", 0, b, "ok", None, FALSE, FALSE)
    /\ UNCHANGED <<bufs, hostBufs, views, calls>>

----------------------------------------------------------------------------
(* class OwnedPointer of safe.ts *)

(* constructor(arg), arg a number: this.#buffer = new ArrayBuffer(arg) *)
ConstructNumber(n) ==
    /\ RoomForBuffer /\ RoomForStore /\ Len(ptrs) < MaxPointers
    /\ mem' = Append(mem, Zeros(n))
    /\ bufs' = NewBufferOver(bufs, Len(mem) + 1)
    /\ ptrs' = Append(ptrs, NewPointer(Len(bufs) + 1, 0, Zeros(n)))
    /\ calls' = Append(calls, NoCall)
    /\ last' = Obs("construct", Len(ptrs) + 1, 0, "ok", None, FALSE, FALSE)
    /\ UNCHANGED <<hostBufs, views>>

ConstructorBuffer_Clone(bs, arg) ==
    [bufs |-> StructuredCloneNoTransfer(bs, arg), buf |-> Len(bs) + 1]

ConstructorBuffer_KeepArg(bs, arg) == [bufs |-> bs, buf |-> arg]

(* constructor(arg), arg an ArrayBuffer or the buffer of a typed array:
   this.#buffer = structuredClone(arg, { transfer: [arg] }) *)
ConstructorBuffer(bs, arg) == CloneResult(bs, arg)

(* new OwnedPointer(data): structuredClone throws a DataCloneError when asked
   to transfer a buffer that is already detached *)
ConstructFromBuffer(b) ==
    /\ b \in hostBufs
    /\ IsDetached(bufs, b) \/ (RoomForBuffer /\ Len(ptrs) < MaxPointers)
    /\ IF IsDetached(bufs, b)
       THEN /\ last' = Obs("construct", 0, b, "DataCloneError", None, FALSE, FALSE)
            /\ UNCHANGED <<mem, bufs, ptrs, hostBufs, views, calls>>
       ELSE LET r == ConstructorBuffer(bufs, b) IN
            /\ bufs' = r.bufs
            /\ ptrs' = Append(ptrs, NewPointer(r.buf, b, Content(bufs, b)))
            /\ calls' = Append(calls, NoCall)
            /\ last' = Obs("construct", Len(ptrs) + 1, b, "ok", None, FALSE, FALSE)
            /\ UNCHANGED <<mem, hostBufs, views>>

(* transfer(): if (this.#buffer.byteLength === 0) throw new Error(...) *)
TransferThrows(bs, b) == ByteLength(bs, b) = 0

TransferOut_AsIs(bs, b) == [bufs |-> bs, buf |-> b]

(* transfer(): return structuredClone(this.#buffer, { transfer: [this.#buffer] }) *)
TransferOut(bs, b) == CloneResult(bs, b)

(* pointer.transfer(); the host makes a typed array over the returned buffer *)
Transfer(p) ==
    /\ p \in Pointers
    /\ TransferThrows(bufs, ptrs[p].buf) \/ RoomForBuffer
    /\ IF TransferThrows(bufs, ptrs[p].buf)
       THEN /\ last' = Obs("transfer", p, 0, "Error", None,
                           InFlight(p), ptrs[p].transferred)
            /\ UNCHANGED <<mem, bufs, ptrs, hostBufs, views, calls>>
       ELSE LET r == TransferOut(bufs, ptrs[p].buf) IN
            /\ bufs' = r.bufs
            /\ hostBufs' = hostBufs \cup {r.buf}
            /\ ptrs' = [ptrs EXCEPT ![p].transferred = TRUE]
            /\ last' = Obs("transfer", p, r.buf, "ok",
                           Some(ByteLength(r.bufs, r.buf)),
                           InFlight(p), ptrs[p].transferred)
            /\ UNCHANGED <<mem, views, calls>>

(* new DataView(buffer) throws a TypeError on a detached buffer *)
NewDataViewThrows(bs, b) == IsDetached(bs, b)

(* getDataView(): return new DataView(this.#buffer). Every call makes a new
   DataView; those made of one buffer after the first behave alike and are
   kept as one (nth = "later"). *)
GetDataView(p) ==
    /\ p \in Pointers
    /\ IF NewDataViewThrows(bufs, ptrs[p].buf)
       THEN /\ last' = Obs("getDataView", p, 0, "TypeError", None,
                           InFlight(p), ptrs[p].transferred)
            /\ UNCHANGED <<mem, bufs, ptrs, hostBufs, views, calls>>
       ELSE /\ views' = views \cup
                      {[ptr |-> p, buf |-> ptrs[p].buf,
                        nth |-> IF \E w \in views : w.buf = ptrs[p].buf
                                THEN "later" ELSE "first"]}
            /\ ptrs' = Touched(ptrs, p)
            /\ last' = Obs("getDataView", p, ptrs[p].buf, "ok", None,
                           InFlight(p), ptrs[p].transferred)
            /\ UNCHANGED <<mem, bufs, hostBufs, calls>>

(* Any DataView read or write: TypeError when the buffer is detached,
   RangeError when the element does not fit *)
DataViewError(bs, b) ==
    IF IsDetached(bs, b) THEN "TypeError"
    ELSE IF ByteLength(bs, b) = 0 THEN "RangeError"
    ELSE "ok"

(* view.getBigUint64(0, true) or view.getUint8(0) *)
ViewGet(vw) ==
    /\ vw \in views
    /\ last' = Obs("viewGet", vw.ptr, vw.buf, DataViewError(bufs, vw.buf),
                   IF DataViewError(bufs, vw.buf) = "ok"
                   THEN ReadElem0(Content(bufs, vw.buf)) ELSE None,
                   InFlight(vw.ptr), ptrs[vw.ptr].transferred)
    /\ UNCHANGED <<mem, bufs, ptrs, hostBufs, views, calls>>

(* view.setBigUint64(0, v, true) or view.setUint8(0, v) *)
ViewSet(vw, v) ==
    /\ vw \in views
    /\ mem' = IF DataViewError(bufs, vw.buf) = "ok"
              THEN [mem EXCEPT ![bufs[vw.buf]] = WriteElem0(@, v)]
              ELSE mem
    /\ last' = Obs("viewSet", vw.ptr, vw.buf, DataViewError(bufs, vw.buf), None,
                   InFlight(vw.ptr), ptrs[vw.ptr].transferred)
    /\ UNCHANGED <<bufs, ptrs, hostBufs, views, calls>>

----------------------------------------------------------------------------
(* Non-blocking FFI calls: what Deno does with an OwnedPointer argument *)

(* Values the native library may write into the memory it was given *)
NativeVals == {6}

DenoCheckThrows_Never(bs, b) == FALSE

(* "Deno's internal checks": a pointer whose buffer is detached is refused *)
DenoCheckThrows(bs, b) == IsDetached(bs, b)

DenoDetachForCall_Skip(bs, b) == bs

(* "Deno will call v8_ArrayBuffer_Detach on the internal buffer" *)
DenoDetachForCall(bs, b) == Detach(bs, b)

(* nonblockingCall(pointer): the detach is synchronous, the native function is
   queued for a worker thread and a pending promise is returned *)
Dispatch(p) ==
    /\ p \in Pointers
    /\ IF DenoCheckThrows(bufs, ptrs[p].buf)
       THEN /\ last' = Obs("dispatch", p, 0, "TypeError", None,
                           InFlight(p), ptrs[p].transferred)
            /\ UNCHANGED <<mem, bufs, ptrs, hostBufs, views, calls>>
       ELSE /\ InFlight(p) \/ RoomForBuffer
            /\ bufs' = DenoDetachForCall(bufs, ptrs[p].buf)
            /\ calls' = [calls EXCEPT ![p] =
                          [store |-> bufs[ptrs[p].buf], worker |-> "queued",
                           status |-> None, resolved |-> FALSE,
                           promise |-> None, modified |-> FALSE,
                           snap |-> Content(bufs, ptrs[p].buf)]]
            /\ ptrs' = Touched(ptrs, p)
            /\ last' = Obs("dispatch", p, ptrs[p].buf, "ok", None,
                           InFlight(p), ptrs[p].transferred)
            /\ UNCHANGED <<mem, hostBufs, views>>

(* The worker thread enters the native function *)
WorkerBegin(p) ==
    /\ p \in Pointers
    /\ calls[p].worker = "queued"
    /\ calls' = [calls EXCEPT ![p].worker = "running"]
    /\ UNCHANGED <<mem, bufs, ptrs, hostBufs, views, last>>

(* The native function writes the memory it was given *)
WorkerWrite(p, v) ==
    /\ p \in Pointers
    /\ calls[p].worker = "running"
    /\ mem' = [mem EXCEPT ![calls[p].store] = WriteElem0(@, v)]
    /\ calls' = [calls EXCEPT ![p].modified = @ \/ mem' # mem]
    /\ UNCHANGED <<bufs, ptrs, hostBufs, views, last>>

(* The native function returns its status: its last use of the memory *)
WorkerEnd(p, st) ==
    /\ p \in Pointers
    /\ calls[p].worker = "running"
    /\ calls' = [calls EXCEPT ![p].worker = "finished", ![p].status = Some(st)]
    /\ UNCHANGED <<mem, bufs, ptrs, hostBufs, views, last>>

CallReturnEnabled_Early(p) == calls[p].worker \in {"running", "finished"}

(* "When the call returns": the worker has left the native function *)
CallReturnEnabled(p) == calls[p].worker = "finished"

OnCallReturn_NoReattach(m, bs, s, st) ==
    [mem |-> m, bufs |-> NewBufferOver(bs, NoStore), value |-> st]

OnCallReturn_Copy(m, bs, s, st) ==
    [mem |-> Append(m, Zeros(m[s].len)),
     bufs |-> NewBufferOver(bs, Len(m) + 1), value |-> st]

OnCallReturn_OnSuccess(m, bs, s, st) ==
    [mem |-> m,
     bufs |-> NewBufferOver(bs, IF st = Some(0) THEN s ELSE NoStore),
     value |-> st]

OnCallReturn_ReviveOld(m, bs, s, st) ==
    [mem |-> m,
     bufs |-> NewBufferOver([b \in DOMAIN bs |->
                               IF bs[b] = NoStore THEN s ELSE bs[b]], s),
     value |-> st]

(* "it will replace the internal buffer with a new ArrayBuffer object with the
   same backing store (meaning no copying occurs)"; the promise resolves with
   the native function's result *)
OnCallReturn(m, bs, s, st) ==
    [mem |-> m, bufs |-> NewBufferOver(bs, s), value |-> st]

(* The call's completion, run on the event loop thread *)
CallReturn(p) ==
    /\ p \in Pointers
    /\ InFlight(p)
    /\ CallReturnEnabled(p)
    /\ LET r == OnCallReturn(mem, bufs, calls[p].store, calls[p].status) IN
       /\ mem' = r.mem
       /\ bufs' = r.bufs
       /\ ptrs' = [ptrs EXCEPT ![p].buf = Len(r.bufs)]
       /\ calls' = [calls EXCEPT ![p].resolved = TRUE, ![p].promise = r.value]
       /\ last' = Obs("resolve", p, Len(r.bufs), "ok", r.value,
                      FALSE, ptrs[p].transferred)
    /\ UNCHANGED <<hostBufs, views>>

----------------------------------------------------------------------------
(* Garbage collection of OwnedPointer objects: safe.ts, noUserAfterFree *)

(* "the pointer object itself goes out of scope": host code keeps no
   reference to the OwnedPointer *)
DropPointer(p) ==
    /\ p \in Pointers \ gc.dropped
    /\ gc' = [gc EXCEPT !.dropped = @ \cup {p}]
    /\ UNCHANGED nbVars

(* The backing stores the collector frees with an OwnedPointer: the store of
   its private #buffer, which nothing else refers to; a detached #buffer has
   no store *)
StoresOf(bs, b) == IF IsDetached(bs, b) THEN {} ELSE {bs[b]}

(* The OwnedPointer object is garbage collected, and its #buffer with it *)
CollectPointer(p) ==
    /\ p \in gc.dropped \ gc.collected
    /\ gc' = [gc EXCEPT !.collected = @ \cup {p},
                        !.freed = @ \cup StoresOf(bufs, ptrs[p].buf)]
    /\ bufs' = Detach(bufs, ptrs[p].buf)
    /\ UNCHANGED <<mem, ptrs, hostBufs, views, calls, last>>

(* "Deno needs to handle the pointer object having been garbage collected by
   clearing out the internal buffer when the nonblocking call returns": there
   is no OwnedPointer to give the memory back to, the store is released and
   the promise resolves *)
CallReturnCollected(p) ==
    /\ p \in gc.collected
    /\ InFlight(p)
    /\ CallReturnEnabled(p)
    /\ gc' = [gc EXCEPT !.freed = @ \cup {calls[p].store}]
    /\ calls' = [calls EXCEPT ![p].resolved = TRUE,
                              ![p].promise = calls[p].status]
    /\ last' = Obs("resolve", p, 0, "ok", calls[p].status, FALSE,
                   ptrs[p].transferred)
    /\ UNCHANGED <<mem, bufs, ptrs, hostBufs, views>>

----------------------------------------------------------------------------
(* Thread-safe callbacks: caveats.ts *)

(* Threads that may call the C callback: the event loop thread and another *)
Threads == {"main", "other"}

(* data[0] of the Uint8Array the native library passes: 13 in caveats.ts *)
Payloads == {0, 13}

(* new Int32Array(new SharedArrayBuffer(4)) *)
ChannelBytes == 4
Int32Bytes == 4
ChannelLength == ChannelBytes \div Int32Bytes

(* The indices the producer and the consumer use *)
FlagIndex == 0
DataIndex == 1

(* The values of the flag: a new SharedArrayBuffer is filled with zeros;
   the producer signals with Atomics.store(mspc_channel, 0, 1) and the
   consumer with Atomics.store(mspc_channel, 0, 0) *)
FlagEmpty == 0
RequestPending == 1
ResponseReady == 0

(* const helpData = ... res(13) *)
HelpData == 13

(* ValidateAtomicAccess: an Atomics operation at an index the array does not
   have throws a RangeError *)
AtomicsInBounds(i) == i >= 0 /\ i < ChannelLength

(* Atomics.load(mspc_channel, i), for an index in bounds *)
AtomicsLoad(ch, i) == ch[i + 1]

(* Atomics.store(mspc_channel, i, v), for an index in bounds *)
AtomicsStore(ch, i, v) == [ch EXCEPT ![i + 1] = v]

(* is_event_loop_thread(): true when the call is done on the event loop *)
is_event_loop_thread(t) == t = "main"

(* shouldBeSyncCallback / asyncCallback: return helpData == buffer[0] *)
asyncCallback(value) == HelpData = value

IdleProducer ==
    [pc |-> "idle", impl |-> "none", data |-> 0, err |-> "none",
     ret |-> "none", waited |-> FALSE, armed |-> FALSE, before |-> <<>>,
     invoked |-> 0, replied |-> 0]

IdleConsumer == [pc |-> "none", value |-> 0, result |-> "none", err |-> "none"]

(* The event loop thread is inside a synchronous producer call, or blocked *)
MainBusy ==
    \/ prod["main"].pc \notin {"idle", "done", "thrown"}
    \/ cons.pc = "blocked"

Thrown(r, e) == [r EXCEPT !.pc = "thrown", !.err = e]

(* ffi_store_thread_safe_callback(asyncCallback) *)
ffi_store_thread_safe_callback ==
    /\ ~MainBusy
    /\ stored_thread_safe_callback = "none"
    /\ stored_thread_safe_callback' = "asyncCallback"
    /\ UNCHANGED <<mspc_channel, ffi_call_producer, prod, cons>>

(* ffi_call_producer = function thread_aware_ffi_call_producer ... *)
AssignThreadAwareProducer ==
    /\ ~MainBusy
    /\ ffi_call_producer = "ffi_call_producer"
    /\ ffi_call_producer' = "thread_aware_ffi_call_producer"
    /\ UNCHANGED <<mspc_channel, stored_thread_safe_callback, prod, cons>>

(* ffi_call_async_callback() on thread t: data[0] = d; ffi_call_producer(data).
   armed records whether the event loop was idle with the consumer waiting,
   before what the channel held when the call was made, invoked and replied
   how often the callback was run and a reply written for this call. *)
ffi_call_async_callback(t, d) ==
    /\ prod[t].pc \in {"idle", "done", "thrown"}
    /\ is_event_loop_thread(t) => cons.pc # "blocked"
    /\ prod' = [prod EXCEPT ![t] =
                  [pc |-> "store_flag", impl |-> ffi_call_producer, data |-> d,
                   err |-> "none", ret |-> "none", waited |-> FALSE,
                   armed |-> ~MainBusy /\ cons.pc = "waiting",
                   before |-> mspc_channel, invoked |-> 0, replied |-> 0]]
    /\ UNCHANGED <<mspc_channel, stored_thread_safe_callback,
                   ffi_call_producer, cons>>

(* One statement of ffi_call_producer / thread_aware_ffi_call_producer on
   thread t: the channel after it, the producer after it, and whether it
   notified the waiters on the flag *)
ProducerStatement(t) ==
    LET me == prod[t] IN
    CASE me.pc = "store_flag" ->
            (* Atomics.store(mspc_channel, 0, 1) *)
            IF AtomicsInBounds(FlagIndex)
            THEN [chan |-> AtomicsStore(mspc_channel, FlagIndex, RequestPending),
                  me |-> [me EXCEPT !.pc = "store_data"], wake |-> FALSE]
            ELSE [chan |-> mspc_channel, me |-> Thrown(me, "RangeError"),
                  wake |-> FALSE]
      [] me.pc = "store_data" ->
            (* Atomics.store(mspc_channel, 1, data[0]) *)
            IF AtomicsInBounds(DataIndex)
            THEN [chan |-> AtomicsStore(mspc_channel, DataIndex, me.data),
                  me |-> [me EXCEPT !.pc = "notify"], wake |-> FALSE]
            ELSE [chan |-> mspc_channel, me |-> Thrown(me, "RangeError"),
                  wake |-> FALSE]
      [] me.pc = "notify" ->
            (* Atomics.notify(mspc_channel, 0) *)
            [chan |-> mspc_channel,
             me |-> [me EXCEPT !.pc =
                        IF me.impl = "thread_aware_ffi_call_producer"
                        THEN "check" ELSE "wait"],
             wake |-> TRUE]
      [] me.pc = "check" ->
            (* if (is_event_loop_thread()) throw new Error("FATAL ERROR") *)
            [chan |-> mspc_channel,
             me |-> IF is_event_loop_thread(t)
                    THEN Thrown(me, "FATAL ERROR")
                    ELSE [me EXCEPT !.pc = "wait"],
             wake |-> FALSE]
      [] me.pc = "wait" ->
            (* Atomics.wait(mspc_channel, 0, 1): blocks while the flag is 1 *)
            [chan |-> mspc_channel,
             me |-> IF AtomicsLoad(mspc_channel, FlagIndex) = RequestPending
                    THEN [me EXCEPT !.pc = "blocked", !.waited = TRUE]
                    ELSE [me EXCEPT !.pc = "load"],
             wake |-> FALSE]
      [] me.pc = "load" ->
            (* const value = Atomics.load(mspc_channel, 1); return value === 1 *)
            [chan |-> mspc_channel,
             me |-> IF AtomicsInBounds(DataIndex)
                    THEN [me EXCEPT !.pc = "done",
                            !.ret = (AtomicsLoad(mspc_channel, DataIndex) = 1)]
                    ELSE Thrown(me, "RangeError"),
             wake |-> FALSE]

(* Atomics.notify(mspc_channel, 0) wakes every agent waiting on the flag *)
WokenProducer(r) == IF r.pc = "blocked" THEN [r EXCEPT !.pc = "load"] ELSE r
WokenConsumer(c) ==
    IF c.pc \in {"waiting", "blocked"} THEN [c EXCEPT !.pc = "ready"] ELSE c

(* Thread t executes the next statement of its producer call *)
ProducerStep(t) ==
    /\ prod[t].pc \in {"store_flag", "store_data", "notify", "check", "wait",
                       "load"}
    /\ LET r == ProducerStatement(t) IN
       /\ mspc_channel' = r.chan
       /\ prod' = [u \in Threads |->
                     IF u = t THEN r.me
                     ELSE IF r.wake THEN WokenProducer(prod[u]) ELSE prod[u]]
       /\ cons' = IF r.wake THEN WokenConsumer(cons) ELSE cons
    /\ UNCHANGED <<stored_thread_safe_callback, ffi_call_producer>>

(* Atomics.wait(mspc_channel, 0, 0): the calling thread itself is blocked
   while the flag is 0 *)
AtomicsWaitAsync_Blocking(flag) ==
    IF flag = FlagEmpty THEN "blocked" ELSE "ready"

(* Atomics.waitAsync(mspc_channel, 0, 0); await promise: the promise is
   pending while the flag is 0 and the thread goes on with other work;
   otherwise the result is "not-equal" and the function continues at once *)
AtomicsWaitAsync(flag) == IF flag = FlagEmpty THEN "waiting" ELSE "ready"

(* ffi_call_consumer(), up to its first await *)
ffi_call_consumer ==
    /\ ~MainBusy
    /\ cons.pc \in {"none", "done", "rejected"}
    /\ cons' = [IdleConsumer EXCEPT !.pc =
                  AtomicsWaitAsync(AtomicsLoad(mspc_channel, FlagIndex))]
    /\ UNCHANGED <<mspc_channel, stored_thread_safe_callback,
                   ffi_call_producer, prod>>

(* One statement of ffi_call_consumer after it was woken *)
ConsumerStatement ==
    CASE cons.pc = "ready" ->
            (* const value = Atomics.load(mspc_channel, 1); data[0] = value;
               await stored_thread_safe_callback(data) *)
            IF ~AtomicsInBounds(DataIndex)
            THEN [chan |-> mspc_channel, me |-> Thrown(cons, "RangeError"),
                  wake |-> FALSE]
            ELSE IF stored_thread_safe_callback = "none"
            THEN [chan |-> mspc_channel, me |-> Thrown(cons, "TypeError"),
                  wake |-> FALSE]
            ELSE [chan |-> mspc_channel,
                  me |-> [cons EXCEPT !.pc = "calling",
                            !.value = AtomicsLoad(mspc_channel, DataIndex)],
                  wake |-> FALSE]
      [] cons.pc = "calling" ->
            (* the callback's promise settles; Atomics.store(mspc_channel, 0, 0) *)
            [chan |-> AtomicsStore(mspc_channel, FlagIndex, ResponseReady),
             me |-> [cons EXCEPT !.pc = "reply_data",
                       !.result = asyncCallback(cons.value)],
             wake |-> FALSE]
      [] cons.pc = "reply_data" ->
            (* Atomics.store(mspc_channel, 1, result ? 1 : 0) *)
            IF AtomicsInBounds(DataIndex)
            THEN [chan |-> AtomicsStore(mspc_channel, DataIndex,
                                        IF cons.result THEN 1 ELSE 0),
                  me |-> [cons EXCEPT !.pc = "reply_notify"], wake |-> FALSE]
            ELSE [chan |-> mspc_channel, me |-> Thrown(cons, "RangeError"),
                  wake |-> FALSE]
      [] cons.pc = "reply_notify" ->
            (* Atomics.notify(mspc_channel, 0) *)
            [chan |-> mspc_channel, me |-> [cons EXCEPT !.pc = "done"],
             wake |-> TRUE]

(* The producer has signalled its request and not yet read the reply *)
Outstanding(r) ==
    r.pc \in {"store_data", "notify", "check", "wait", "blocked"}

(* The producer calls whose request the consumer serves with this statement
   count the run of the callback and the reply *)
Served(r, from, to) ==
    IF ~Outstanding(r) THEN r
    ELSE IF from = "ready" /\ to = "calling"
    THEN [r EXCEPT !.invoked = @ + 1]
    ELSE IF from = "reply_data" /\ to = "reply_notify"
    THEN [r EXCEPT !.replied = @ + 1]
    ELSE r

(* The event loop runs the next statement of the consumer *)
ConsumerStep ==
    /\ ~MainBusy
    /\ cons.pc \in {"ready", "calling", "reply_data", "reply_notify"}
    /\ LET r == ConsumerStatement IN
       /\ mspc_channel' = r.chan
       /\ cons' = IF r.me.pc = "thrown"
                  THEN [r.me EXCEPT !.pc = "rejected"] ELSE r.me
       /\ prod' = [u \in Threads |->
                     IF r.wake THEN WokenProducer(prod[u])
                     ELSE Served(prod[u], cons.pc, r.me.pc)]
    /\ UNCHANGED <<stored_thread_safe_callback, ffi_call_producer>>

InitTS ==
    /\ mspc_channel = [i \in 1..ChannelLength |-> FlagEmpty]
    /\ stored_thread_safe_callback = "none"
    /\ ffi_call_producer = "ffi_call_producer"
    /\ prod = [t \in Threads |-> IdleProducer]
    /\ cons = IdleConsumer

----------------------------------------------------------------------------
(* Stored callbacks: created.ts, proposal.d.ts *)

(* Bound of the model *)
MaxCallbacks == 2

(* Native functions that keep the callback they are given:
   register_queue_callback, and a second one of the same kind *)
EntryPoints == {"register_queue_callback", "register_other_callback"}

NoCallback == 0

Callbacks == DOMAIN stored

(* What an operation on a StoredCallback did: was is the state it found,
   ran tells whether the host function was executed *)
CbObs(op, c, e, was, outcome, ran) ==
    [op |-> op, cb |-> c, entry |-> e, was |-> was, outcome |-> outcome,
     ran |-> ran]

(* new StoredCallback(description, callback): Deno makes the resource (#rid) *)
StoredCallbackConstructor ==
    /\ Len(stored) < MaxCallbacks
    /\ stored' = Append(stored, [state |-> "Constructed", held |-> TRUE,
                                 wrapper |-> TRUE, deleteCalled |-> FALSE])
    /\ cbLast' = CbObs("construct", Len(stored) + 1, "none", "none", "ok", FALSE)
    /\ UNCHANGED entries

UseDeletedThrows_Never(c) == FALSE

(* "Using a deleted StoredCallback in FFI functions will throw an error." *)
UseDeletedThrows(c) == stored[c].state = "Deleted"

(* lib.symbols.register_queue_callback(callback): the native library keeps the
   C callback it receives; the first registration makes the callback Active *)
RegisterCallback(c, e) ==
    /\ c \in Callbacks /\ stored[c].held
    /\ IF UseDeletedThrows(c)
       THEN /\ cbLast' = CbObs("register", c, e, stored[c].state, "Error", FALSE)
            /\ UNCHANGED <<stored, entries>>
       ELSE /\ stored' = [stored EXCEPT ![c].state = "Active"]
            /\ entries' = [entries EXCEPT ![e] = c]
            /\ cbLast' = CbObs("register", c, e, stored[c].state, "ok", FALSE)

(* lib.symbols.clear_queue_callback(): the native library drops its reference *)
ClearCallback(e) ==
    /\ entries[e] # NoCallback
    /\ entries' = [entries EXCEPT ![e] = NoCallback]
    /\ cbLast' = CbObs("clear", entries[e], e, stored[entries[e]].state, "ok",
                       FALSE)
    /\ UNCHANGED stored

DeleteOutcome_AlwaysOk(state) == "ok"

(* delete() / deregister(): CallbackDeleted when it is already Deleted *)
DeleteOutcome(state) == IF state = "Deleted" THEN "CallbackDeleted" ELSE "ok"

(* callback.delete(): "Delete the stored callback and all its data";
   deregister(): "Removes Rust-side data" *)
DeleteCallback(c) ==
    /\ c \in Callbacks /\ stored[c].held
    /\ stored' = [stored EXCEPT ![c].state = "Deleted",
                                ![c].deleteCalled = TRUE]
    /\ cbLast' = CbObs("delete", c, "none", stored[c].state,
                       DeleteOutcome(stored[c].state), FALSE)
    /\ UNCHANGED entries

InvokeFails_FirstEntryOnly(e) ==
    /\ stored[entries[e]].state = "Deleted"
    /\ e = "register_queue_callback"

(* The bridge detects the Deleted state and fails the invocation *)
InvokeFails(e) == stored[entries[e]].state = "Deleted"

(* lib.symbols.drain_queue(): the native library calls the callback it keeps
   for entry point e *)
InvokeCallback(e) ==
    /\ entries[e] # NoCallback
    /\ cbLast' = CbObs("invoke", entries[e], e, stored[entries[e]].state,
                       IF InvokeFails(e) THEN "CallbackDeleted" ELSE "ok",
                       ~InvokeFails(e))
    /\ UNCHANGED <<stored, entries>>

(* `callback` goes out of scope: the host holds no handle any more *)
DropHandle(c) ==
    /\ c \in Callbacks /\ stored[c].held
    /\ stored' = [stored EXCEPT ![c].held = FALSE]
    /\ cbLast' = CbObs("drop", c, "none", stored[c].state, "ok", FALSE)
    /\ UNCHANGED entries

GarbageCollect_FreesResource(cb) ==
    IF cb.held THEN cb
    ELSE [cb EXCEPT !.wrapper = FALSE, !.state = "Deleted"]

(* Garbage collection of a StoredCallback object nobody holds: "the actual
   callback Resource is held by Deno" *)
GarbageCollect(cb) == IF cb.held THEN cb ELSE [cb EXCEPT !.wrapper = FALSE]

CollectGarbage ==
    /\ \E c \in Callbacks : ~stored[c].held /\ stored[c].wrapper
    /\ stored' = [c \in Callbacks |-> GarbageCollect(stored[c])]
    /\ cbLast' = CbObs("gc", NoCallback, "none", "none", "ok", FALSE)
    /\ UNCHANGED entries

InitSC ==
    /\ stored = <<>>
    /\ entries = [e \in EntryPoints |-> NoCallback]
    /\ cbLast = CbObs("init", NoCallback, "none", "none", "ok", FALSE)

----------------------------------------------------------------------------
(* Plain buffers as arguments of non-blocking calls: safe.ts, guarded.ts *)

(* What host code can pass where the symbol declares a "pointer" parameter *)
PlainArguments == {"ArrayBuffer", "TypedArray"}

(* The declaration that is replaced:
   nonblockingCall: (buffer: Deno.TypedArray) => Promise<number> *)
DenoAcceptsArgument_Current(kind) == TRUE

(* "Deno does not accept plain TypedArray values as arguments in nonblocking
   FFI calls": nonblockingCall: (pointer: OwnedPointer) => Promise<number> *)
DenoAcceptsArgument(kind) == kind = "OwnedPointer"

(* nonblockingCall(buffer) with a plain ArrayBuffer or typed array over b *)
DispatchPlain(b, kind) ==
    /\ b \in hostBufs
    /\ IF DenoAcceptsArgument(kind)
       THEN /\ plainCalls' = plainCalls \cup {b}
            /\ last' = Obs("dispatch_plain", 0, b, "ok", None, FALSE, FALSE)
       ELSE /\ plainCalls' = plainCalls
            /\ last' = Obs("dispatch_plain", 0, b, "TypeError", None, FALSE,
                           FALSE)
    /\ UNCHANGED <<mem, bufs, ptrs, hostBufs, views, calls>>

----------------------------------------------------------------------------
(* The arguments of the OwnedPointer constructor: safe.ts *)

(* Where a view may start and how many bytes it may span *)
ViewOffsets == {0, 4}
ViewLengths == {4, 8}
ViewKinds == {"Uint8Array", "DataView"}

(* new Uint8Array(buffer, byteOffset, length), new DataView(buffer, byteOffset,
   length): both throw unless the range lies within the attached buffer *)
NewView(b, kind, off, n) ==
    /\ b \in hostBufs
    /\ ~IsDetached(bufs, b)
    /\ off + n <= ByteLength(bufs, b)
    /\ arrays' = arrays \cup
                   {[kind |-> kind, buf |-> b, byteOffset |-> off, length |-> n]}
    /\ UNCHANGED nbVars

(* typedArray.length: 0 once the buffer is detached *)
TypedArrayLength(bs, a) == IF IsDetached(bs, a.buf) THEN 0 ELSE a.length

(* The argument a view is: an object, not an ArrayBuffer, whose buffer
   property is an ArrayBuffer *)
ViewArgument(a) ==
    [kind |-> a.kind, typeof |-> "object", truthy |-> TRUE,
     isArrayBuffer |-> FALSE, buffer |-> a.buf, length |-> a.length]

(* Arguments with no ArrayBuffer in a buffer property (buffer = 0): a string,
   null, undefined, an object literal, a typed array over a SharedArrayBuffer *)
OtherArguments ==
    {[kind |-> "string", typeof |-> "string", truthy |-> TRUE,
      isArrayBuffer |-> FALSE, buffer |-> 0, length |-> 0],
     [kind |-> "null", typeof |-> "object", truthy |-> FALSE,
      isArrayBuffer |-> FALSE, buffer |-> 0, length |-> 0],
     [kind |-> "undefined", typeof |-> "undefined", truthy |-> FALSE,
      isArrayBuffer |-> FALSE, buffer |-> 0, length |-> 0],
     [kind |-> "object", typeof |-> "object", truthy |-> TRUE,
      isArrayBuffer |-> FALSE, buffer |-> 0, length |-> 0],
     [kind |-> "SharedUint8Array", typeof |-> "object", truthy |-> TRUE,
      isArrayBuffer |-> FALSE, buffer |-> 0, length |-> 8]}

(* The branch of the constructor an argument takes *)
ConstructorBranch(arg) ==
    IF arg.typeof = "number" THEN "number"
    ELSE IF arg.isArrayBuffer THEN "ArrayBuffer"
    ELSE IF arg.typeof = "object" /\ arg.truthy /\ arg.buffer # 0 THEN "buffer"
    ELSE "TypeError"

ConstructorView_ViewOnly(m, bs, arg) ==
    [mem |-> Append(m, Zeros(arg.length)),
     bufs |-> NewBufferOver(bs, Len(m) + 1), buf |-> Len(bs) + 1]

(* this.#buffer = structuredClone(arg.buffer, { transfer: [arg.buffer] }) *)
ConstructorView(m, bs, arg) ==
    [mem |-> m, bufs |-> StructuredCloneTransfer(bs, arg.buffer),
     buf |-> Len(bs) + 1]

(* new OwnedPointer(arg), arg neither a number nor an ArrayBuffer *)
OwnedPointerConstructor(arg) ==
    /\ ConstructorBranch(arg) \in {"buffer", "TypeError"}
    /\ IF ConstructorBranch(arg) = "TypeError"
       THEN /\ last' = Obs("construct", 0, 0, "TypeError", Some(arg), FALSE,
                           FALSE)
            /\ UNCHANGED <<mem, bufs, ptrs, hostBufs, views, calls>>
       ELSE IF IsDetached(bufs, arg.buffer)
       THEN /\ last' = Obs("construct", 0, arg.buffer, "DataCloneError",
                           Some(arg), FALSE, FALSE)
            /\ UNCHANGED <<mem, bufs, ptrs, hostBufs, views, calls>>
       ELSE LET r == ConstructorView(mem, bufs, arg) IN
            /\ RoomForBuffer /\ Len(ptrs) < MaxPointers
            /\ mem' = r.mem
            /\ bufs' = r.bufs
            /\ ptrs' = Append(ptrs, NewPointer(r.buf, arg.buffer,
                                               Content(bufs, arg.buffer)))
            /\ calls' = Append(calls, NoCall)
            /\ last' = Obs("construct", Len(ptrs) + 1, arg.buffer, "ok",
                           Some(arg), FALSE, FALSE)
            /\ UNCHANGED <<hostBufs, views>>

----------------------------------------------------------------------------
(* The current API: current.ts, concurrentAccess *)

(* The typed arrays a call of the current API is still running with *)
CurrentInFlight == {b \in DOMAIN currentCalls : ~currentCalls[b].resolved}

(* const promise = nonblockingCall(buffer): the typed array is passed by
   reference, nothing is detached, the native function is queued for a
   worker thread with the address of the memory *)
CurrentCall(b) ==
    /\ b \in hostBufs
    /\ ~IsDetached(bufs, b)
    /\ b \notin CurrentInFlight
    /\ currentCalls' =
           [c \in DOMAIN currentCalls \cup {b} |->
              IF c = b
              THEN [store |-> bufs[b], worker |-> "queued", status |-> None,
                    resolved |-> FALSE, during |-> {}, after |-> {}]
              ELSE currentCalls[c]]
    /\ last' = Obs("current_call", 0, b, "ok", None, TRUE, FALSE)
    /\ UNCHANGED <<mem, bufs, ptrs, hostBufs, views, calls>>

(* The spawned thread enters the native function *)
CurrentWorkerBegin(b) ==
    /\ b \in CurrentInFlight
    /\ currentCalls[b].worker = "queued"
    /\ currentCalls' = [currentCalls EXCEPT ![b].worker = "running"]
    /\ UNCHANGED nbVars

(* "The library might change the memory from underneath us as well" *)
CurrentWorkerWrite(b, v) ==
    /\ b \in CurrentInFlight
    /\ currentCalls[b].worker = "running"
    /\ mem' = [mem EXCEPT ![currentCalls[b].store] = WriteElem0(@, v)]
    /\ UNCHANGED <<bufs, ptrs, hostBufs, views, calls, last, currentCalls>>

(* The native function returns: the library's last use of the memory *)
CurrentWorkerEnd(b, st) ==
    /\ b \in CurrentInFlight
    /\ currentCalls[b].worker = "running"
    /\ currentCalls' = [currentCalls EXCEPT ![b].worker = "finished",
                                            ![b].status = Some(st)]
    /\ UNCHANGED nbVars

PromiseResolves_Early(worker) == worker \in {"running", "finished"}

(* "The FFI symbol in JS returns a Promise which resolves once the spawned
   thread returns" *)
PromiseResolves(worker) == worker = "finished"

(* await promise *)
CurrentReturn(b) ==
    /\ b \in CurrentInFlight
    /\ PromiseResolves(currentCalls[b].worker)
    /\ currentCalls' = [currentCalls EXCEPT ![b].resolved = TRUE]
    /\ last' = Obs("current_resolve", 0, b, "ok", currentCalls[b].status,
                   FALSE, FALSE)
    /\ UNCHANGED <<mem, bufs, ptrs, hostBufs, views, calls>>

(* Host code reads or writes the array: "during" keeps the accesses made
   while the native function was running, "after" what the worker was doing
   at each access made once the promise had resolved *)
NoteAccess(b, op) ==
    currentCalls' =
       IF b \notin DOMAIN currentCalls THEN currentCalls
       ELSE IF currentCalls[b].resolved
       THEN [currentCalls EXCEPT ![b].after = @ \cup
               {[op |-> op, worker |-> currentCalls[b].worker]}]
       ELSE IF currentCalls[b].worker = "running"
       THEN [currentCalls EXCEPT ![b].during = @ \cup {op}]
       ELSE currentCalls

(* buffer[0] = 3n *)
CurrentHostWrite(b, v) == HostWrite(b, v) /\ NoteAccess(b, "write")

(* buffer[0] !== 3n *)
CurrentHostRead(b) == HostRead(b) /\ NoteAccess(b, "read")

----------------------------------------------------------------------------
(* Foreign pointers: proposal.d.ts *)

(* Bound of the model: the addresses the native library hands out *)
MaxAddresses == 3

NativeAddresses == 1..MaxAddresses

(* The null pointer *)
NullAddress == 0

(* The pointer-sized field native memory holds at an address: the structures
   of the library form a chain that ends with a null pointer *)
NativeFieldAt(a) == IF a < MaxAddresses THEN a + 1 ELSE NullAddress

FpObs(op, a, outcome, made) ==
    [op |-> op, addr |-> a, outcome |-> outcome, made |-> made]

ForeignPointerConstructorThrows_Never == FALSE

(* constructor(): "Throws, manual construction not allowed" *)
ForeignPointerConstructorThrows == TRUE

(* new ForeignPointer(), attempted by host code for the raw integer a *)
ForeignPointerConstructor(a) ==
    IF ForeignPointerConstructorThrows
    THEN /\ fpLast' = FpObs("construct", a, "TypeError", FALSE)
         /\ UNCHANGED <<foreign, fviews>>
    ELSE /\ foreign' = foreign \cup {[addr |-> a, origin |-> "host"]}
         /\ fpLast' = FpObs("construct", a, "ok", TRUE)
         /\ UNCHANGED fviews

(* A symbol whose result is "pointer" returns: null or a ForeignPointer *)
NativeReturnsPointer(a) ==
    /\ foreign' = IF a = NullAddress THEN foreign
                  ELSE foreign \cup {[addr |-> a, origin |-> "native"]}
    /\ fpLast' = FpObs("native", a, "ok", a # NullAddress)
    /\ UNCHANGED fviews

(* new ForeignPointerView(pointer) *)
ForeignPointerViewConstructor(f) ==
    /\ f \in foreign
    /\ fviews' = fviews \cup {[pointer |-> f]}
    /\ fpLast' = FpObs("view", f.addr, "ok", FALSE)
    /\ UNCHANGED foreign

(* view.getForeignPointer(): the field is read as getBigUint64 reads it and
   returned as a ForeignPointer, or as null for a null pointer *)
getForeignPointer(vw) ==
    /\ vw \in fviews
    /\ LET a == NativeFieldAt(vw.pointer.addr) IN
       /\ foreign' = IF a = NullAddress THEN foreign
                     ELSE foreign \cup {[addr |-> a, origin |-> "view"]}
       /\ fpLast' = FpObs("getForeignPointer", a, "ok", a # NullAddress)
    /\ UNCHANGED fviews

(* The address of a backing store of the JavaScript heap: such addresses lie
   apart from the ones the native library hands out *)
StoreAddress(st) == MaxAddresses + st

(* The backing stores a ForeignPointerView held by host code addresses *)
ForeignReadable ==
    {st \in DOMAIN mem : \E vw \in fviews : vw.pointer.addr = StoreAddress(st)}

(* The current API: const pointer = Deno.UnsafePointer.of(data) *)
UnsafePointerOfRemoved_Present == FALSE

(* "Deno.UnsafePointer.of() static method is removed to ensure that JS code
   cannot contain a pointer to OwnedPointer data" *)
UnsafePointerOfRemoved == TRUE

(* Deno.UnsafePointer.of(data), data a typed array over the attached buffer b:
   a call of a method that does not exist throws a TypeError *)
UnsafePointerOf(b) ==
    /\ b \in hostBufs
    /\ ~IsDetached(bufs, b)
    /\ IF UnsafePointerOfRemoved
       THEN /\ fpLast' = FpObs("of", StoreAddress(bufs[b]), "TypeError", FALSE)
            /\ UNCHANGED <<foreign, fviews>>
       ELSE /\ foreign' = foreign \cup
                    {[addr |-> StoreAddress(bufs[b]), origin |-> "of"]}
            /\ fpLast' = FpObs("of", StoreAddress(bufs[b]), "ok", TRUE)
            /\ UNCHANGED fviews

(* pointerView.getUint8(): reads the byte at the address, whatever has become
   of the ArrayBuffer that once had the memory *)
getUint8(vw) ==
    /\ vw \in fviews
    /\ fpLast' = FpObs("getUint8", vw.pointer.addr, "ok", FALSE)
    /\ UNCHANGED <<foreign, fviews>>

InitFP ==
    /\ foreign = {}
    /\ fviews = {}
    /\ fpLast = FpObs("init", NullAddress, "ok", FALSE)

----------------------------------------------------------------------------
(* Specifications *)

InitNB ==
    /\ mem = <<>>
    /\ bufs = <<>>
    /\ ptrs = <<>>
    /\ hostBufs = {}
    /\ views = {}
    /\ calls = <<>>
    /\ last = Obs("init", 0, 0, "ok", None, FALSE, FALSE)
    /\ plainCalls = {}
    /\ currentCalls = <<>>
    /\ arrays = {}
    /\ gc = [dropped |-> {}, collected |-> {}, freed |-> {}]

Init == InitNB /\ InitTS /\ InitSC /\ InitFP

NextSafe ==
    \/ \E b \in hostBufs, kind \in PlainArguments :
          DispatchPlain(b, kind) /\ UNCHANGED <<tsVars, scVars, fpVars, gc, currentCalls, arrays>>
    \/ \E n \in Lengths, v \in InitVals : HostAlloc(n, v) /\ UNCHANGED notNB
    \/ \E b \in hostBufs : HostRead(b) /\ UNCHANGED notNB
    \/ \E b \in hostBufs, v \in HostVals : HostWrite(b, v) /\ UNCHANGED notNB
    \/ \E n \in Lengths : ConstructNumber(n) /\ UNCHANGED notNB
    \/ \E b \in hostBufs : ConstructFromBuffer(b) /\ UNCHANGED notNB
    \/ \E p \in Pointers : Transfer(p) /\ UNCHANGED notNB
    \/ \E p \in Pointers : GetDataView(p) /\ UNCHANGED notNB
    \/ \E vw \in views : ViewGet(vw) /\ UNCHANGED notNB
    \/ \E vw \in views, v \in HostVals : ViewSet(vw, v) /\ UNCHANGED notNB
    \/ \E p \in Pointers : Dispatch(p) /\ UNCHANGED notNB
    \/ \E p \in Pointers : WorkerBegin(p) /\ UNCHANGED notNB
    \/ \E p \in Pointers, v \in NativeVals : WorkerWrite(p, v) /\ UNCHANGED notNB
    \/ \E p \in Pointers, st \in Statuses : WorkerEnd(p, st) /\ UNCHANGED notNB
    \/ \E p \in Pointers : CallReturn(p) /\ UNCHANGED notNB

SpecSafe == Init /\ [][NextSafe]_vars

----------------------------------------------------------------------------
(* class OwnedPointer of guarded.ts: constructor(length) and getBuffer() *)

(* A non-blocking call runs on a worker thread that is scheduled, the native
   function returns, and the event loop runs the call's completion *)
WorkerFairness ==
    \A p \in 1..MaxPointers :
        /\ WF_vars(WorkerBegin(p) /\ UNCHANGED notNB)
        /\ WF_vars((\E st \in Statuses : WorkerEnd(p, st)) /\ UNCHANGED notNB)
        /\ WF_vars(CallReturn(p) /\ UNCHANGED notNB)

SpecSafeFair == SpecSafe /\ WorkerFairness

(* const buffer = pointer.getBuffer(); new BigUint64Array(buffer): the
   internal ArrayBuffer itself is returned; a typed array cannot be made over
   a detached buffer (TypeError) *)
GetBuffer(p) ==
    /\ p \in Pointers
    /\ IF IsDetached(bufs, ptrs[p].buf)
       THEN /\ last' = Obs("getBuffer", p, ptrs[p].buf, "TypeError", None,
                           InFlight(p), ptrs[p].transferred)
            /\ UNCHANGED <<mem, bufs, ptrs, hostBufs, views, calls>>
       ELSE /\ hostBufs' = hostBufs \cup {ptrs[p].buf}
            /\ ptrs' = Touched(ptrs, p)
            /\ last' = Obs("getBuffer", p, ptrs[p].buf, "ok",
                           Some(ByteLength(bufs, ptrs[p].buf)),
                           InFlight(p), ptrs[p].transferred)
            /\ UNCHANGED <<mem, bufs, views, calls>>

NextGuarded ==
    \/ \E b \in hostBufs, kind \in PlainArguments :
          DispatchPlain(b, kind) /\ UNCHANGED <<tsVars, scVars, fpVars, gc, currentCalls, arrays>>
    \/ \E n \in Lengths : ConstructNumber(n) /\ UNCHANGED notNB
    \/ \E p \in Pointers : GetBuffer(p) /\ UNCHANGED notNB
    \/ \E b \in hostBufs : HostRead(b) /\ UNCHANGED notNB
    \/ \E b \in hostBufs, v \in HostVals : HostWrite(b, v) /\ UNCHANGED notNB
    \/ \E p \in Pointers : Dispatch(p) /\ UNCHANGED notNB
    \/ \E p \in Pointers : WorkerBegin(p) /\ UNCHANGED notNB
    \/ \E p \in Pointers, v \in NativeVals : WorkerWrite(p, v) /\ UNCHANGED notNB
    \/ \E p \in Pointers, st \in Statuses : WorkerEnd(p, st) /\ UNCHANGED notNB
    \/ \E p \in Pointers : CallReturn(p) /\ UNCHANGED notNB

SpecGuarded == Init /\ [][NextGuarded]_vars

NextBridge ==
    \/ ffi_store_thread_safe_callback /\ UNCHANGED notTS
    \/ AssignThreadAwareProducer /\ UNCHANGED notTS
    \/ \E t \in Threads, d \in Payloads :
          ffi_call_async_callback(t, d) /\ UNCHANGED notTS
    \/ \E t \in Threads : ProducerStep(t) /\ UNCHANGED notTS
    \/ ffi_call_consumer /\ UNCHANGED notTS
    \/ ConsumerStep /\ UNCHANGED notTS

SpecBridge == Init /\ [][NextBridge]_vars

(* What the event loop thread can do next: a statement of the synchronous call
   it is inside, a job of the event loop, or a new operation of host code *)
MainStep ==
    \/ ProducerStep("main") /\ UNCHANGED notTS
    \/ \E d \in Payloads : ffi_call_async_callback("main", d) /\ UNCHANGED notTS
    \/ ffi_call_consumer /\ UNCHANGED notTS
    \/ ConsumerStep /\ UNCHANGED notTS
    \/ ~MainBusy /\ (\E p \in Pointers : Transfer(p)) /\ UNCHANGED notNB
    \/ ~MainBusy /\ (\E p \in Pointers : Dispatch(p)) /\ UNCHANGED notNB
    \/ ~MainBusy /\ (\E p \in Pointers : CallReturn(p)) /\ UNCHANGED notNB

(* The event loop thread is suspended in a blocking wait *)
MainBlocked == prod["main"].pc = "blocked" \/ cons.pc = "blocked"

(* Non-blocking calls and thread-safe callbacks in one program: host code and
   the event loop's jobs run on the event loop thread when it is not inside a
   synchronous call; workers and other threads run at any time *)
NextMain ==
    \/ ffi_store_thread_safe_callback /\ UNCHANGED notTS
    \/ AssignThreadAwareProducer /\ UNCHANGED notTS
    \/ \E t \in Threads, d \in Payloads :
          ffi_call_async_callback(t, d) /\ UNCHANGED notTS
    \/ \E t \in Threads : ProducerStep(t) /\ UNCHANGED notTS
    \/ ffi_call_consumer /\ UNCHANGED notTS
    \/ ConsumerStep /\ UNCHANGED notTS
    \/ ~MainBusy /\ ConstructNumber(8) /\ UNCHANGED notNB
    \/ ~MainBusy /\ (\E p \in Pointers : Dispatch(p)) /\ UNCHANGED notNB
    \/ ~MainBusy /\ (\E p \in Pointers : Transfer(p)) /\ UNCHANGED notNB
    \/ \E p \in Pointers : WorkerBegin(p) /\ UNCHANGED notNB
    \/ \E p \in Pointers, st \in Statuses : WorkerEnd(p, st) /\ UNCHANGED notNB
    \/ ~MainBusy /\ (\E p \in Pointers : CallReturn(p)) /\ UNCHANGED notNB

SpecMain == Init /\ [][NextMain]_vars

(* safe.ts with the garbage collector: host code may drop an OwnedPointer at
   any time, also while a call holds its memory *)
NextCollected ==
    \/ \E n \in Lengths : ConstructNumber(n) /\ UNCHANGED notNB
    \/ \E p \in Pointers \ gc.dropped : Dispatch(p) /\ UNCHANGED notNB
    \/ \E p \in Pointers \ gc.dropped : Transfer(p) /\ UNCHANGED notNB
    \/ \E p \in Pointers : WorkerBegin(p) /\ UNCHANGED notNB
    \/ \E p \in Pointers, v \in NativeVals : WorkerWrite(p, v) /\ UNCHANGED notNB
    \/ \E p \in Pointers, st \in Statuses : WorkerEnd(p, st) /\ UNCHANGED notNB
    \/ \E p \in Pointers \ gc.collected : CallReturn(p) /\ UNCHANGED notNB
    \/ \E p \in Pointers :
          DropPointer(p) /\ UNCHANGED <<tsVars, scVars, fpVars, plainCalls, currentCalls, arrays>>
    \/ \E p \in Pointers :
          CollectPointer(p) /\ UNCHANGED <<tsVars, scVars, fpVars, plainCalls, currentCalls, arrays>>
    \/ \E p \in Pointers :
          CallReturnCollected(p)
            /\ UNCHANGED <<tsVars, scVars, fpVars, plainCalls, currentCalls, arrays>>

SpecCollected == Init /\ [][NextCollected]_vars

(* appendix() of safe.ts: host code tries to take a pointer to its own data,
   which it hands to an OwnedPointer (safe.ts) or has got from one with
   getBuffer() (guarded.ts), and reads through views during the call; the
   library returns a pointer to its own memory *)
NextAppendix ==
    \/ \E v \in InitVals : HostAlloc(8, v) /\ UNCHANGED notNB
    \/ \E b \in hostBufs : UnsafePointerOf(b) /\ UNCHANGED notFP
    \/ \E b \in hostBufs : ConstructFromBuffer(b) /\ UNCHANGED notNB
    \/ ConstructNumber(8) /\ UNCHANGED notNB
    \/ \E p \in Pointers : GetBuffer(p) /\ UNCHANGED notNB
    \/ \E p \in Pointers : Dispatch(p) /\ UNCHANGED notNB
    \/ \E p \in Pointers : WorkerBegin(p) /\ UNCHANGED notNB
    \/ \E p \in Pointers, st \in Statuses : WorkerEnd(p, st) /\ UNCHANGED notNB
    \/ \E p \in Pointers : CallReturn(p) /\ UNCHANGED notNB
    \/ NativeReturnsPointer(1) /\ UNCHANGED notFP
    \/ \E f \in foreign : ForeignPointerViewConstructor(f) /\ UNCHANGED notFP
    \/ \E vw \in fviews : getUint8(vw) /\ UNCHANGED notFP

SpecAppendix == Init /\ [][NextAppendix]_vars

notCurrent == <<tsVars, scVars, fpVars, plainCalls, gc, arrays>>

(* concurrentAccess() of current.ts *)
NextCurrent ==
    \/ \E v \in InitVals : HostAlloc(8, v) /\ UNCHANGED notNB
    \/ \E b \in hostBufs : CurrentCall(b) /\ UNCHANGED notCurrent
    \/ \E b \in hostBufs, v \in HostVals :
          CurrentHostWrite(b, v) /\ UNCHANGED notCurrent
    \/ \E b \in hostBufs : CurrentHostRead(b) /\ UNCHANGED notCurrent
    \/ \E b \in hostBufs : CurrentWorkerBegin(b) /\ UNCHANGED notCurrent
    \/ \E b \in hostBufs, v \in NativeVals :
          CurrentWorkerWrite(b, v) /\ UNCHANGED notCurrent
    \/ \E b \in hostBufs, st \in Statuses :
          CurrentWorkerEnd(b, st) /\ UNCHANGED notCurrent
    \/ \E b \in hostBufs : CurrentReturn(b) /\ UNCHANGED notCurrent

SpecCurrent == Init /\ [][NextCurrent]_vars

notArrays == <<tsVars, scVars, fpVars, plainCalls, gc, currentCalls>>

(* Host code makes views of its buffers and constructs OwnedPointers of them
   and of other values *)
NextConstructor ==
    \/ \E v \in InitVals : HostAlloc(8, v) /\ UNCHANGED notNB
    \/ \E b \in hostBufs, kind \in ViewKinds, off \in ViewOffsets,
          n \in ViewLengths :
          NewView(b, kind, off, n) /\ UNCHANGED notArrays
    \/ \E a \in arrays : OwnedPointerConstructor(ViewArgument(a)) /\ UNCHANGED notNB
    \/ \E arg \in OtherArguments : OwnedPointerConstructor(arg) /\ UNCHANGED notNB
    \/ \E b \in hostBufs : HostRead(b) /\ UNCHANGED notNB

SpecConstructor == Init /\ [][NextConstructor]_vars

NextForeign ==
    \/ \E a \in NativeAddresses :
          ForeignPointerConstructor(a) /\ UNCHANGED notFP
    \/ \E a \in NativeAddresses \cup {NullAddress} :
          NativeReturnsPointer(a) /\ UNCHANGED notFP
    \/ \E f \in foreign : ForeignPointerViewConstructor(f) /\ UNCHANGED notFP
    \/ \E vw \in fviews : getForeignPointer(vw) /\ UNCHANGED notFP

SpecForeign == Init /\ [][NextForeign]_vars

NextCallbacks ==
    \/ StoredCallbackConstructor /\ UNCHANGED notSC
    \/ \E c \in Callbacks, e \in EntryPoints :
          RegisterCallback(c, e) /\ UNCHANGED notSC
    \/ \E e \in EntryPoints : ClearCallback(e) /\ UNCHANGED notSC
    \/ \E c \in Callbacks : DeleteCallback(c) /\ UNCHANGED notSC
    \/ \E e \in EntryPoints : InvokeCallback(e) /\ UNCHANGED notSC
    \/ \E c \in Callbacks : DropHandle(c) /\ UNCHANGED notSC
    \/ CollectGarbage /\ UNCHANGED notSC

SpecCallbacks == Init /\ [][NextCallbacks]_vars

----------------------------------------------------------------------------
(* Properties of OwnedPointer and of non-blocking calls *)

AccessOps == {"transfer", "getDataView", "viewGet", "viewSet"}

(* The ArrayBuffer objects that give access to backing store s *)
Attached(s) == {b \in DOMAIN bufs : bufs[b] = s}

(* The DataViews that give access to backing store s *)
AccessibleViews(s) == {vw \in views : bufs[vw.buf] = s}

(* The ArrayBuffers with a typed array of the host that give access to s *)
AccessibleArrays(s) == {b \in hostBufs : bufs[b] = s}

(* The calls in flight that were given backing store s *)
CallsUsing(s) == {p \in Pointers : InFlight(p) /\ calls[p].store = s}

(* C1: between the dispatch of a non-blocking call and its resolution, every
   host attempt to transfer() the pointer, to get a DataView of it or to read
   or write through a DataView of it throws and returns nothing, whatever the
   worker has done so far; and no typed array the host holds reads the memory
   of a call in flight. *)
C1_NoAccessInFlight ==
    /\ (last.op \in AccessOps /\ last.flying) =>
          (last.outcome # "ok" /\ last.val = None)
    /\ (last.op = "read" /\ last.outcome = "ok") =>
          CallsUsing(bufs[last.buf]) = {}

C1_Witness ==
    /\ last.op = "transfer" /\ last.flying /\ last.outcome = "Error"
    /\ calls[last.ptr].worker = "running"

(* C2: a call of the thread-safe callback from the event loop thread through
   the thread-aware producer ends with the error that reports the reentrant
   call ("FATAL ERROR"), and never reaches the blocking Atomics.wait, whatever
   the payload and the channel hold. *)
C2_MainThreadFailsFast ==
    \A t \in Threads :
        (prod[t].impl = "thread_aware_ffi_call_producer"
            /\ is_event_loop_thread(t)) =>
          /\ prod[t].pc \notin {"wait", "blocked", "load", "done"}
          /\ ~prod[t].waited
          /\ prod[t].pc = "thrown" => prod[t].err = "FATAL ERROR"

(* C3: every backing store has exactly one owner, an attached ArrayBuffer or a
   call in flight, and while the worker is inside the native function the
   pointer is not Owned and no ArrayBuffer gives access to the memory. *)
C3_SingleOwner ==
    /\ \A s \in DOMAIN mem :
          Cardinality(Attached(s)) + Cardinality(CallsUsing(s)) = 1
    /\ \A p \in Pointers :
          calls[p].worker = "running" =>
              (~Owned(p) /\ Attached(calls[p].store) = {})

C3_Witness ==
    \E p \in Pointers :
        /\ calls[p].worker = "running" /\ calls[p].modified
        /\ ~Owned(p)

(* C4: when the promise of a non-blocking call has resolved, the pointer it
   consumed is Owned again, and transfer() and getDataView() on the original
   handle do not throw. *)
C4_UsableOnceResolved ==
    last.op = "resolve" =>
        /\ Owned(last.ptr)
        /\ ~TransferThrows(bufs, ptrs[last.ptr].buf)
        /\ ~NewDataViewThrows(bufs, ptrs[last.ptr].buf)

(* C5: the pointer is reattached to the same backing store without a copy:
   when a call resolves with 0 and the native function wrote nothing, the bytes
   read through the pointer are the bytes it held at the dispatch; 35 written
   at element 0 of an 8 byte pointer is read back as 35. *)
C5_SameBytesAfterCall ==
    \A p \in Pointers :
        (/\ last.op = "resolve" /\ last.ptr = p
         /\ calls[p].promise = Some(0) /\ ~calls[p].modified) =>
            /\ bufs[ptrs[p].buf] = calls[p].store
            /\ Content(bufs, ptrs[p].buf) = calls[p].snap
            /\ calls[p].snap = WriteElem0(Zeros(8), 35) =>
                   ReadElem0(Content(bufs, ptrs[p].buf)) = Some(35)

C5_Witness ==
    /\ last.op = "resolve"
    /\ calls[last.ptr].promise = Some(0) /\ ~calls[last.ptr].modified
    /\ calls[last.ptr].snap.len = 8
    /\ ReadElem0(Content(bufs, ptrs[last.ptr].buf)) = Some(35)

(* C6: a call whose native function reports failure still returns the pointer
   to Owned over the same backing store, and the promise of every resolved call
   carries the status the native function returned. *)
C6_FailureStillReattaches ==
    /\ \A p \in Pointers :
          calls[p].resolved =>
              (calls[p].status # None /\ calls[p].promise = calls[p].status)
    /\ (last.op = "resolve" /\ calls[last.ptr].status # Some(0)) =>
          /\ Owned(last.ptr)
          /\ bufs[ptrs[last.ptr].buf] = calls[last.ptr].store

C6_Witness ==
    /\ last.op = "resolve" /\ calls[last.ptr].promise = Some(1)
    /\ Owned(last.ptr) /\ calls[last.ptr].modified

(* C7: once transfer() has succeeded on a pointer, every later transfer() on it
   throws and returns no buffer, and the pointer is never Owned again. *)
C7_TransferOnce ==
    /\ \A p \in Pointers : ptrs[p].transferred => ~Owned(p)
    /\ (last.op = "transfer" /\ last.gone) =>
          (last.outcome = "Error" /\ last.val = None /\ last.buf = 0)

C7_Witness ==
    last.op = "transfer" /\ last.gone /\ last.outcome = "Error"

(* C8: after transfer() has moved the buffer out, getDataView() throws, and a
   DataView obtained while the pointer was Owned throws on every read and
   write; none of them returns data. *)
C8_NoViewAfterTransfer ==
    (last.op \in {"getDataView", "viewGet", "viewSet"} /\ last.gone) =>
        (last.outcome = "TypeError" /\ last.val = None)

C8_Witness ==
    /\ last.op = "viewGet" /\ last.gone /\ last.outcome = "TypeError"
    /\ \E vw \in views : vw.ptr = last.ptr /\ vw.buf = last.buf

(* C9: the first transfer() on a pointer constructed from a buffer of N bytes
   returns a buffer of N bytes with the same contents, for every N. *)
C9_RoundTrip ==
    \A p \in Pointers :
        (/\ last.op = "transfer" /\ last.ptr = p /\ ~last.gone
         /\ ptrs[p].src # 0 /\ ptrs[p].fresh) =>
            /\ last.outcome = "ok"
            /\ last.val = Some(ptrs[p].orig.len)
            /\ Content(bufs, last.buf) = ptrs[p].orig

(* C10: constructing an OwnedPointer from a buffer detaches the source in the
   same step: the source has length zero from then on, a typed array over it
   reads nothing, and the source and the pointer never both give access to the
   backing store. *)
C10_SourceDetached ==
    \A p \in Pointers :
        ptrs[p].src # 0 =>
            /\ IsDetached(bufs, ptrs[p].src)
            /\ ByteLength(bufs, ptrs[p].src) = 0
            /\ ReadElem0(Content(bufs, ptrs[p].src)) = None
            /\ ptrs[p].src # ptrs[p].buf

C10_Witness ==
    /\ last.op = "construct" /\ last.outcome = "ok" /\ last.buf # 0
    /\ ptrs[last.ptr].orig.len = 8 /\ Owned(last.ptr)

(* C11: passing a pointer that is not Owned (transferred out earlier, or held
   by a call still in flight) to a non-blocking call throws at once: the
   dispatch starts no call, queues no worker, and changes neither the memory
   nor any buffer, so the pointer stays as it was. *)
C11_DetachedDispatchFails ==
    [][\A p \in Pointers :
          (~Owned(p) /\ last'.op = "dispatch" /\ last'.ptr = p /\ last' # last) =>
              /\ last'.outcome # "ok"
              /\ calls' = calls /\ mem' = mem /\ bufs' = bufs /\ ptrs' = ptrs]_vars

C11_Witness ==
    /\ last.op = "dispatch" /\ last.outcome = "TypeError" /\ last.gone
    /\ ~Owned(last.ptr) /\ calls[last.ptr].worker = "none"

(* C12: with the worker scheduled fairly, every dispatched call resolves, with
   the status the native function returned (success or failure), and its
   pointer is Owned again then; a call in flight ends only by its completion
   after the worker has finished, never by a cancellation, and its pointer is
   not Owned before that. *)
C12_CallCompletes ==
    /\ [][\A p \in Pointers :
            InFlight(p) =>
                /\ ~Owned(p)
                /\ ~InFlight(p)' =>
                      /\ calls[p].worker = "finished"
                      /\ calls'[p].resolved /\ calls'[p].promise = calls[p].status
                      /\ Owned(p)']_vars
    /\ \A p \in 1..MaxPointers :
          (p \in Pointers /\ InFlight(p)) ~>
              (/\ p \in Pointers /\ calls[p].resolved /\ Owned(p)
               /\ \E st \in Statuses : calls[p].promise = Some(st))

C12_Witness ==
    /\ last.op = "resolve" /\ calls[last.ptr].worker = "finished"
    /\ calls[last.ptr].resolved /\ Owned(last.ptr)
    /\ ByteLength(bufs, ptrs[last.ptr].buf) = 4096

(* C13: delete() on a StoredCallback that is already Deleted reports
   CallbackDeleted and leaves it Deleted; once delete() has been called on a
   callback, every invocation of it fails with CallbackDeleted and does not run
   the host function. *)
C13_DeleteTwice ==
    /\ (cbLast.op = "delete" /\ cbLast.was = "Deleted") =>
          /\ cbLast.outcome = "CallbackDeleted"
          /\ stored[cbLast.cb].state = "Deleted"
    /\ \A c \in Callbacks :
          stored[c].deleteCalled => stored[c].state = "Deleted"
    /\ (cbLast.op = "invoke" /\ stored[cbLast.cb].deleteCalled) =>
          (cbLast.outcome = "CallbackDeleted" /\ ~cbLast.ran)

C13_Witness ==
    /\ cbLast.op = "delete" /\ cbLast.was = "Deleted"
    /\ cbLast.outcome = "CallbackDeleted"
    /\ \E e \in EntryPoints : entries[e] = cbLast.cb

(* C14: when the native library keeps one StoredCallback for two entry points
   and the callback has been deleted, an invocation through either entry point
   fails with CallbackDeleted; the host function of a Deleted callback is never
   executed. *)
C14_DeletedNeverRuns ==
    \A e \in EntryPoints :
        (cbLast.op = "invoke" /\ cbLast.entry = e /\ cbLast.was = "Deleted") =>
            (cbLast.outcome = "CallbackDeleted" /\ ~cbLast.ran)

C14_Witness ==
    /\ cbLast.op = "invoke" /\ cbLast.entry = "register_other_callback"
    /\ cbLast.outcome = "CallbackDeleted"
    /\ \A e \in EntryPoints : entries[e] = cbLast.cb

(* C15: a Deleted StoredCallback stays Deleted on every step, and passing it
   to a registration call throws and registers nothing. *)
C15_DeletedIsTerminal ==
    [][\A c \in Callbacks :
          stored[c].state = "Deleted" =>
              /\ stored'[c].state = "Deleted"
              /\ (cbLast'.op = "register" /\ cbLast'.cb = c /\ cbLast' # cbLast) =>
                    (cbLast'.outcome # "ok" /\ entries' = entries)]_vars

C15_Witness ==
    /\ cbLast.op = "register" /\ cbLast.was = "Deleted"
    /\ cbLast.outcome = "Error"
    /\ \A e \in EntryPoints : entries[e] # cbLast.cb

(* C16: a StoredCallback is Deleted only if delete() was called on it; a
   callback the native library keeps, on which delete() was not called, is
   Active and every invocation of it runs the host function, also after the
   host dropped its handle and the StoredCallback object was collected. *)
C16_OnlyDeleteDeletes ==
    /\ \A c \in Callbacks :
          /\ stored[c].state = "Deleted" => stored[c].deleteCalled
          /\ ((\E e \in EntryPoints : entries[e] = c) /\ ~stored[c].deleteCalled)
                => stored[c].state = "Active"
    /\ (cbLast.op = "invoke" /\ ~stored[cbLast.cb].deleteCalled) =>
          (cbLast.outcome = "ok" /\ cbLast.ran)

C16_Witness ==
    /\ cbLast.op = "invoke" /\ cbLast.outcome = "ok" /\ cbLast.ran
    /\ ~stored[cbLast.cb].held /\ ~stored[cbLast.cb].wrapper

(* C17: a call of the thread-safe callback with payload 13 from a thread other
   than the event loop thread, made while the event loop is idle and the
   consumer is waiting, does not end with an error: it ends by returning the
   value the callback returned for that payload. *)
C17_OtherThreadGetsResult ==
    \A t \in Threads :
        (/\ ~is_event_loop_thread(t) /\ prod[t].armed /\ prod[t].data = 13
         /\ prod[t].pc \in {"done", "thrown"}) =>
            (prod[t].pc = "done" /\ prod[t].ret = asyncCallback(prod[t].data))

(* C18: while a producer call is in progress, the consumer executes its read of
   the request payload only when a producer has written its payload and is
   waiting for the reply. *)
C18_RequestWrittenBeforeRead ==
    [][(/\ cons.pc = "ready" /\ cons'.pc # "ready"
        /\ \E t \in Threads : prod[t].pc \notin {"idle", "done", "thrown"}) =>
            \E t \in Threads :
                prod[t].pc \in {"notify", "check", "wait", "blocked"}]_vars

(* C19: a producer call that was not refused for being on the event loop
   thread ends by reading the result from the channel, after the consumer has
   written the result of the callback, and returns that result. *)
C19_ResponseWrittenBeforeRead ==
    \A t \in Threads :
        (prod[t].pc \in {"done", "thrown"} /\ prod[t].err # "FATAL ERROR") =>
            /\ prod[t].pc = "done"
            /\ cons.result # "none"
            /\ prod[t].ret = cons.result

(* C20 as stated: at any time at most one DataView or typed array gives access
   to a backing store. *)
C20_AtMostOneView ==
    \A s \in DOMAIN mem :
        Cardinality(AccessibleViews(s)) + Cardinality(AccessibleArrays(s)) <= 1

(* C20, amended: all the DataViews and typed arrays that give access to a
   backing store are views of one and the same ArrayBuffer, which for a
   DataView is the #buffer its pointer holds now; while a call in flight holds
   the store, no view gives access to it. *)
C20_ViewsOfOneBuffer ==
    \A s \in DOMAIN mem :
        /\ Cardinality({vw.buf : vw \in AccessibleViews(s)}
                          \cup AccessibleArrays(s)) <= 1
        /\ \A vw \in AccessibleViews(s) : vw.buf = ptrs[vw.ptr].buf
        /\ CallsUsing(s) # {} =>
              (AccessibleViews(s) = {} /\ AccessibleArrays(s) = {})

C20_Witness ==
    \E s \in DOMAIN mem :
        /\ Cardinality(AccessibleViews(s)) = 2
        /\ \E p \in Pointers : calls[p].resolved /\ bufs[ptrs[p].buf] = s


(* C21: host code cannot make a ForeignPointer: new ForeignPointer() always
   throws and makes nothing, so every ForeignPointer host code holds was
   returned by a native call or read through a ForeignPointerView, and a view
   is bound to such a pointer. *)
C21_NoHostMadePointer ==
    /\ \A f \in foreign : f.origin \in {"native", "view"}
    /\ \A vw \in fviews : vw.pointer.origin \in {"native", "view"}
    /\ fpLast.op = "construct" =>
          (fpLast.outcome = "TypeError" /\ ~fpLast.made)

C21_Witness ==
    /\ fpLast.op = "construct" /\ fpLast.outcome = "TypeError"
    /\ \E f, g \in foreign : f.origin = "native" /\ g.origin = "view"
    /\ [addr |-> fpLast.addr, origin |-> "native"] \notin foreign

(* C22: a non-blocking call given a plain ArrayBuffer or typed array where a
   pointer is expected is refused with a TypeError, and no call is ever
   started with a plain buffer. *)
C22_PlainBufferRefused ==
    /\ plainCalls = {}
    /\ last.op = "dispatch_plain" => last.outcome = "TypeError"

C22_Witness ==
    /\ last.op = "dispatch_plain" /\ last.outcome = "TypeError"
    /\ \E p \in Pointers : InFlight(p) /\ calls[p].worker = "running"

(* C23: the event loop thread is never suspended in a blocking wait, and while
   a non-blocking call is in flight or the consumer of the thread-safe
   callback waits for a request, the event loop thread has a step it can
   take. *)
C23_MainNeverBlocks ==
    /\ ~MainBlocked
    /\ (cons.pc = "waiting" \/ \E p \in Pointers : InFlight(p)) =>
          ENABLED MainStep

C23_Witness ==
    /\ cons.pc = "waiting"
    /\ \E p \in Pointers : InFlight(p) /\ calls[p].worker = "running"
    /\ last.op = "transfer" /\ last.flying
    /\ prod["main"].pc = "thrown"

(* C24: a call of the thread-safe callback made from the event loop thread
   through the producer without the thread check never comes back to its
   caller: it neither returns a value nor throws. *)
C24_MainCallNeverReturns ==
    \A t \in Threads :
        (is_event_loop_thread(t) /\ prod[t].impl = "ffi_call_producer") =>
            prod[t].pc \notin {"done", "thrown"}

(* C25: when a call made from the event loop thread through the thread-aware
   producer fails, and no other thread has used the channel, the channel holds
   what it held before the call (flag and payload), and the consumer does not
   run the callback for that call. *)
C25_FailedCallLeavesChannel ==
    [][\A t \in Threads :
          (/\ is_event_loop_thread(t)
           /\ prod[t].impl = "thread_aware_ffi_call_producer"
           /\ prod[t].pc # "thrown" /\ prod'[t].pc = "thrown"
           /\ \A u \in Threads \ {t} : prod[u].impl = "none") =>
              /\ mspc_channel' = prod[t].before
              /\ cons'.pc \notin {"ready", "calling"}]_vars

(* C26: every call of the thread-safe callback made from a thread other than
   the event loop thread, the first as well as each later one, whatever its
   payload, ends by returning the value the callback returns for its payload,
   never with an error. *)
C26_EveryCallServed ==
    \A t \in Threads :
        (~is_event_loop_thread(t) /\ prod[t].pc \in {"done", "thrown"}) =>
            /\ prod[t].err = "none"
            /\ prod[t].ret = asyncCallback(prod[t].data)

(* C27: a producer writes its request into the channel only when no request
   is outstanding: the flag is 0, and no other producer has written a request
   and not yet read its response. *)
C27_OneOutstandingRequest ==
    [][\A t \in Threads :
          (prod[t].pc = "store_flag" /\ prod'[t].pc # "store_flag") =>
              /\ AtomicsLoad(mspc_channel, FlagIndex) = 0
              /\ \A u \in Threads \ {t} :
                    prod[u].pc \in {"idle", "done", "thrown", "store_flag"}]_vars

(* C28: the flag of the channel is always one of Empty, RequestPending and
   ResponseReady, and these are three different values, so that a channel
   holding a response can be told from an empty one. *)
C28_ThreeFlagStates ==
    /\ AtomicsLoad(mspc_channel, FlagIndex) \in
          {FlagEmpty, RequestPending, ResponseReady}
    /\ Cardinality({FlagEmpty, RequestPending, ResponseReady}) = 3

(* C29: a producer call that was not refused for being on the event loop
   thread ends with exactly one return: the callback was run once for it, one
   reply was written for it and the call returned a value; at no time has the
   callback run twice or a second reply been written for one call. *)
C29_ReturnExactlyOnce ==
    \A t \in Threads :
        /\ prod[t].invoked <= 1 /\ prod[t].replied <= 1
        /\ (prod[t].pc \in {"done", "thrown"} /\ prod[t].err # "FATAL ERROR") =>
              /\ prod[t].invoked = 1 /\ prod[t].replied = 1
              /\ prod[t].pc = "done" /\ prod[t].ret \in BOOLEAN

(* C30: the consumer writes its reply only after the promise the callback
   returned has settled, and a producer that has signalled its request goes
   on only after that reply was written for it: until then it stays in the
   call, and it leaves the wait only to read the reply. A call refused for
   being on the event loop thread is not concerned. *)
C30_BlockedUntilReply ==
    [][/\ cons'.pc \in {"reply_data", "reply_notify"} => cons'.result # "none"
       /\ \A t \in Threads :
            (/\ Outstanding(prod[t]) /\ ~Outstanding(prod'[t])
             /\ prod'[t].err # "FATAL ERROR") =>
                /\ prod'[t].pc = "load"
                /\ prod[t].replied = 1
                /\ cons.result # "none"]_vars

(* C37: every access of the channel by the producer and by the consumer is at
   an index the channel has: the statement a producer or the consumer is about
   to execute addresses an element within the array, and no access has ended
   in a RangeError. *)
C37_ChannelIndicesInBounds ==
    /\ \A t \in Threads :
          /\ prod[t].pc \in {"store_flag", "wait"} => AtomicsInBounds(FlagIndex)
          /\ prod[t].pc \in {"store_data", "load"} => AtomicsInBounds(DataIndex)
          /\ prod[t].err # "RangeError"
    /\ cons.pc \in {"ready", "reply_data"} => AtomicsInBounds(DataIndex)
    /\ cons.pc = "calling" => AtomicsInBounds(FlagIndex)
    /\ cons.err # "RangeError"

(* C31: in the guarded design, while a call holds the memory of a pointer no
   ArrayBuffer or typed array obtained through getBuffer() has that memory: a
   read through it finds length zero and a write through it leaves every
   backing store as it was. A reference that has become zero-length stays
   zero-length, also when the call completes: the ArrayBuffer made at
   completion is a new one that host code gets only by calling getBuffer()
   again. *)
C31_OldReferencesStayEmpty ==
    /\ [](/\ \A p \in Pointers : InFlight(p) =>
                \A b \in hostBufs : bufs[b] # calls[p].store
          /\ (last.op = "read" /\ IsDetached(bufs, last.buf)) =>
                (last.outcome = "undefined" /\ last.val = None)
          /\ last.op = "resolve" => last.buf \notin hostBufs)
    /\ [][/\ \A b \in hostBufs : IsDetached(bufs, b) => IsDetached(bufs', b)
          /\ (last' # last /\ last'.op = "write"
                /\ IsDetached(bufs, last'.buf)) => mem' = mem
         ]_vars

C31_Witness ==
    /\ last.op = "write" /\ IsDetached(bufs, last.buf)
    /\ \E p \in Pointers :
          /\ calls[p].resolved
          /\ ptrs[p].buf \in hostBufs
          /\ ~IsDetached(bufs, ptrs[p].buf)
          /\ calls[p].modified

(* C32: the backing store a non-blocking call was given is not freed while the
   call is in flight, whether or not the OwnedPointer has been dropped and
   garbage collected in the meantime; a store is freed only when no call in
   flight holds it. *)
C32_StoreAliveInFlight ==
    \A p \in Pointers : InFlight(p) => calls[p].store \notin gc.freed

C32_Witness ==
    \E p \in gc.collected :
        /\ InFlight(p) /\ calls[p].worker = "running" /\ calls[p].modified
        /\ calls[p].store \notin gc.freed

(* C33: in the proposed API no ForeignPointer and no ForeignPointerView that
   host code holds addresses a backing store of the JavaScript heap, so the
   memory a non-blocking call holds cannot be read through a view. *)
C33_NoPointerToOwnedData ==
    /\ \A f \in foreign : f.addr \in NativeAddresses
    /\ \A vw \in fviews : vw.pointer.addr \in NativeAddresses
    /\ \A p \in Pointers : InFlight(p) => calls[p].store \notin ForeignReadable

C33_Witness ==
    /\ fpLast.op = "of" /\ fpLast.outcome = "TypeError"
    /\ fviews # {}
    /\ \E p \in Pointers :
          /\ InFlight(p) /\ calls[p].worker = "running"
          /\ fpLast.addr = StoreAddress(calls[p].store)

(* C34: in the current API host code can write the typed array while the
   native call is still using its memory; a read or write made once the
   call's promise has resolved finds the native function returned *)
C34_NoOverlapAfterResolve ==
    \A b \in DOMAIN currentCalls :
        /\ currentCalls[b].resolved => currentCalls[b].worker = "finished"
        /\ \A a \in currentCalls[b].after : a.worker = "finished"

C34_Witness ==
    \E b \in DOMAIN currentCalls :
        /\ "write" \in currentCalls[b].during
        /\ {a.op : a \in currentCalls[b].after} = {"read", "write"}
        /\ ~IsDetached(bufs, b)


(* C35: constructing an OwnedPointer from a typed array takes the whole
   ArrayBuffer under it: the pointer's buffer has the byteLength the
   ArrayBuffer had, whatever range the typed array spans, and in the same
   step every typed array over that ArrayBuffer becomes zero-length *)
C35_TakesWholeArrayBuffer ==
    [][(/\ last' # last
        /\ last'.op = "construct" /\ last'.outcome = "ok"
        /\ last'.val[1].kind = "Uint8Array")
       => /\ ptrs' # ptrs
          /\ mem'[bufs'[ptrs'[last'.ptr].buf]].len
                = ByteLength(bufs, last'.buf)
          /\ \A a \in arrays :
                (a.kind = "Uint8Array" /\ a.buf = last'.buf)
                => TypedArrayLength(bufs', a) = 0]_vars

C35_Witness ==
    /\ last.op = "construct" /\ last.outcome = "ok"
    /\ last.val[1].kind = "Uint8Array"
    /\ last.val[1].length < ByteLength(bufs, ptrs[last.ptr].buf)
    /\ \E a \in arrays :
          /\ a.kind = "Uint8Array" /\ a.buf = last.buf
          /\ a.length # last.val[1].length
          /\ TypedArrayLength(bufs, a) = 0

(* C36: constructing an OwnedPointer from an argument that is neither a byte
   count nor a plain buffer or typed array throws a TypeError, makes no
   OwnedPointer and detaches no buffer *)
C36_InvalidArgumentRefused ==
    [][(/\ last' # last
        /\ last'.op = "construct"
        /\ last'.val[1].kind \notin {"number", "ArrayBuffer", "Uint8Array"})
       => /\ last'.outcome = "TypeError"
          /\ ptrs' = ptrs
          /\ bufs' = bufs]_vars

====
